---- MODULE Spec2Model ----
(***************************************************************************)
(* A model of SousChef (src/SousChef.js): the per-user session map, the    *)
(* turn dispatcher processMessage and the five turn handlers, as the       *)
(* callbacks of their promise chains.  One action is one callback: the     *)
(* code that runs between the arrival of an I/O result and the next I/O    *)
(* call (or the end of the chain).  The NLU gateway, the recipe source and *)
(* the recipe store are not part of src/: they are modelled from the       *)
(* interface description of the specification (section 6).                 *)
(***************************************************************************)
EXTENDS Integers, Sequences, FiniteSets, TLC

\* Number of messages the transport hands to processMessage in one run.
MaxTurns == 3
\* Number of promise chains of processMessage that are open at one time.
MaxInFlight == 2
\* Number of web-socket frames other than text messages in one run.
MaxFrames == 2

Users == {"u1", "u2"}
\* Message texts; the same strings serve as cuisine entity values.
Keys == {"a", "b"}
TurnIds == 1..MaxTurns

Undefined == "undefined"
Null == "null"
Absent(v) == v \in {Undefined, Null}

(***************************************************************************)
(* JavaScript values of the context field 'selection', with the two        *)
(* conversions the dispatcher applies to them.                             *)
(***************************************************************************)
JsUndef == [t |-> "undefined", n |-> 0, s |-> ""]
JsNum(i) == [t |-> "number", n |-> i, s |-> ""]
JsStr(x) == [t |-> "string", n |-> 0, s |-> x]
\* The result of parseInt on a string with no leading number.
NaN == 0 - 1000
Truthy(v) ==
    CASE v.t = "undefined" -> FALSE
      [] v.t = "number" -> v.n # 0
      [] v.t = "string" -> v.s # ""
ParseInt(v) ==
    CASE v.t = "number" -> v.n
      [] v.t = "string" /\ v.s = "0" -> 0
      [] v.t = "string" /\ v.s = "2" -> 2
      [] OTHER -> NaN
InRangeFromZero(selection) == selection # NaN /\ selection >= 0 /\ selection <= 5
\* selection >= 1 && selection <= 5: every comparison with NaN is false.
InRange(selection) == selection # NaN /\ selection >= 1 /\ selection <= 5

(***************************************************************************)
(* Recipe candidates and texts.  A text is a sequence of tokens, a token a *)
(* literal string with the number interpolated in front of it (0: none).   *)
(***************************************************************************)
RecipeNums == 1..6
TitleOf(i) ==
    CASE i = 1 -> "Soup" [] i = 2 -> "Stew" [] i = 3 -> "Curry"
      [] i = 4 -> "Salad" [] i = 5 -> "Pie" [] OTHER -> "Tart"
Candidate(i) == [id |-> i, title |-> TitleOf(i)]
\* The template literal `${id}`.
IdStr(i) ==
    CASE i = 1 -> "1" [] i = 2 -> "2" [] i = 3 -> "3" [] i = 4 -> "4" [] i = 5 -> "5"
      [] OTHER -> "6"
RecipeIds == {IdStr(i) : i \in RecipeNums}
NumOf(id) == CHOOSE i \in RecipeNums : IdStr(i) = id
Tok(n, text) == [n |-> n, text |-> text]
\* recipes[j] of a JavaScript array, j counted from 0.
JsAt(arr, j) == arr[j + 1]
JsHas(arr, j) == j >= 0 /\ j < Len(arr)

Fallback == <<Tok(0, "Sorry, something went wrong! Say anything to me to start over...")>>
InvalidSelection == <<Tok(0, "Invalid selection! Say anything to start over...")>>

getRecipeListResponse(matchingRecipes) ==
    <<Tok(0, "Let's see here..."), Tok(0, "I've found these recipes: ")>>
    \o [k \in 1..Len(matchingRecipes) |->
            Tok((k - 1) + 1, JsAt(matchingRecipes, k - 1).title)]
    \o <<Tok(0, ""), Tok(0, "Please enter the corresponding number of your choice.")>>

RECURSIVE JoinEquipment(_)
JoinEquipment(equipment) ==
    IF equipment = <<>> THEN <<>>
    ELSE <<Tok(0, Head(equipment).name), Tok(0, ",")>> \o JoinEquipment(Tail(equipment))
EquipStr(equipment) ==
    LET equipStr == JoinEquipment(equipment)
    IN IF Len(equipStr) = 0 THEN <<Tok(0, "None")>>
       ELSE SubSeq(equipStr, 1, Len(equipStr) - 1)
RECURSIVE StepLines(_, _)
StepLines(recipeSteps, i) ==
    IF ~JsHas(recipeSteps, i) THEN <<>>
    ELSE <<Tok(i + 1, "*Step*:"), Tok(0, "_Equipment_: ")>>
         \o EquipStr(JsAt(recipeSteps, i).equipment)
         \o <<Tok(0, "_Action_: "), Tok(0, JsAt(recipeSteps, i).step)>>
         \o StepLines(recipeSteps, i + 1)
getRecipeInstructionsResponse(recipeInfo, recipeSteps) ==
    <<Tok(recipeInfo.readyInMinutes, "* minutes to make *"),
      Tok(recipeInfo.servings, "* servings of *"),
      Tok(0, recipeInfo.title), Tok(0, "*. Here are the steps:")>>
    \o (IF Len(recipeSteps) > 0 THEN StepLines(recipeSteps, 0)
        ELSE <<Tok(0, "_No instructions available for this recipe._")>>)
    \o <<Tok(0, "*Say anything to me to start over...*")>>

(***************************************************************************)
(* Recipe Source (outside src/; RecipeClient of the specification's        *)
(* section 6): a fixed catalogue.                                          *)
(***************************************************************************)
CandidatesFor(key) ==
    IF key = "a"
    THEN <<Candidate(3), Candidate(1), Candidate(4), Candidate(2), Candidate(5)>>
    ELSE <<Candidate(2), Candidate(1)>>
InfoFor(id) == [title |-> TitleOf(NumOf(id)), readyInMinutes |-> 30, servings |-> 4]
StepsFor(id) ==
    IF id = "3" THEN <<[step |-> "Simmer", equipment |-> <<[name |-> "pot"], [name |-> "spoon"]>>]>>
    ELSE IF id = "2" THEN <<[step |-> "Mix", equipment |-> <<>>]>>
    ELSE <<>>

(***************************************************************************)
(* Documents of the Recipe Store (outside src/; the store of the           *)
(* specification's sections 3 and 6).  A find that misses resolves with a  *)
(* null document.                                                          *)
(***************************************************************************)
NoRequests == [u \in Users |-> 0]
ICDoc(kind, key, recipes) == [v |-> "obj", kind |-> kind, key |-> key, recipes |-> recipes]
NullICDoc == [v |-> Null, kind |-> "", key |-> "", recipes |-> <<>>]
UndefICDoc == [v |-> Undefined, kind |-> "", key |-> "", recipes |-> <<>>]
RecipeDoc(id, title, instructions) ==
    [v |-> "obj", id |-> id, title |-> title, instructions |-> instructions]
NullRecipeDoc == [v |-> Null, id |-> "", title |-> "", instructions |-> <<>>]
NoIC == [exists |-> FALSE, recipes |-> <<>>, by |-> "", requests |-> NoRequests]
NoRecipe ==
    [exists |-> FALSE, title |-> "", instructions |-> <<>>, from |-> UndefICDoc,
     by |-> "", requests |-> NoRequests]
EmptyStore ==
    [users |-> {}, ingredient |-> [k \in Keys |-> NoIC], cuisine |-> [k \in Keys |-> NoIC],
     recipes |-> [id \in RecipeIds |-> NoRecipe]]
\* A store that an earlier run of the process has filled.
UsedStore ==
    [EmptyStore EXCEPT
        !.users = {"u1"},
        !.ingredient["a"] = [exists |-> TRUE, recipes |-> CandidatesFor("a"), by |-> "u1",
                             requests |-> NoRequests],
        !.cuisine["b"] = [exists |-> TRUE, recipes |-> CandidatesFor("b"), by |-> "u1",
                          requests |-> NoRequests],
        !.recipes["3"] = [exists |-> TRUE, title |-> TitleOf(3),
                          instructions |-> getRecipeInstructionsResponse(InfoFor("3"), StepsFor("3")),
                          from |-> ICDoc("ingredient", "a", CandidatesFor("a")),
                          by |-> "u1", requests |-> NoRequests]]

\* Every store operation that takes a user reads the user's document.
StoreAccepts(user) == ~Absent(user)
StoreAddUser(s, userId) == [s EXCEPT !.users = @ \cup {userId}]
StoreFindIC(s, kind, key) ==
    IF s[kind][key].exists THEN ICDoc(kind, key, s[kind][key].recipes) ELSE NullICDoc
StoreAddIC(s, kind, key, recipes, user) ==
    IF s[kind][key].exists THEN s
    ELSE [s EXCEPT ![kind][key] =
             [exists |-> TRUE, recipes |-> recipes, by |-> user, requests |-> NoRequests]]
StoreRecordIC(s, kind, key, user) ==
    [s EXCEPT ![kind][key].requests[user] = @ + 1]
StoreFindRecipe(s, id) ==
    IF id \in RecipeIds /\ s.recipes[id].exists
    THEN RecipeDoc(id, s.recipes[id].title, s.recipes[id].instructions)
    ELSE NullRecipeDoc
StoreAddRecipe(s, id, title, instructions, ic, user) ==
    IF s.recipes[id].exists THEN s
    ELSE [s EXCEPT !.recipes[id] =
             [exists |-> TRUE, title |-> title, instructions |-> instructions,
              from |-> ic, by |-> user, requests |-> NoRequests]]
StoreRecordRecipe(s, id, user) ==
    [s EXCEPT !.recipes[id].requests[user] = @ + 1]
RECURSIVE FavoritesFrom(_, _, _)
FavoritesFrom(s, user, i) ==
    IF i \notin RecipeNums THEN <<>>
    ELSE (IF s.recipes[IdStr(i)].exists
             /\ (s.recipes[IdStr(i)].by = user \/ s.recipes[IdStr(i)].requests[user] > 0)
          THEN <<[id |-> i, title |-> s.recipes[IdStr(i)].title]>> ELSE <<>>)
         \o FavoritesFrom(s, user, i + 1)
StoreFindFavorites(s, user, limit) ==
    LET all == FavoritesFrom(s, user, 1)
    IN SubSeq(all, 1, IF Len(all) < limit THEN Len(all) ELSE limit)

(***************************************************************************)
(* NLU Gateway (outside src/; the conversation service of the              *)
(* specification's section 6).  A response carries the context flags, the  *)
(* context field 'selection', the entities and the output text; the other  *)
(* context variables ('recipes') come back as they were sent.              *)
(***************************************************************************)
NoContext(v) ==
    [v |-> v, is_favorites |-> FALSE, is_ingredients |-> FALSE, is_selection |-> FALSE,
     selection |-> JsUndef, hasRecipes |-> FALSE, recipes |-> <<>>]
SelectionValues ==
    {JsUndef, JsStr("abc"), JsStr("2"), JsStr("0")} \cup {JsNum(i) : i \in 0..6}
OutputText == <<"Hi there!", "What would you like to cook?">>
NoResponse == [context |-> NoContext(Undefined), entities |-> <<>>, output |-> <<>>]
Response(request, f, i, s, sel, e) ==
    [context |-> [v |-> "obj", is_favorites |-> f, is_ingredients |-> i,
                  is_selection |-> s, selection |-> sel,
                  hasRecipes |-> request.context.hasRecipes,
                  recipes |-> request.context.recipes],
     entities |-> e, output |-> OutputText]
\* The responses tried: for each handler the response that sets its condition
\* alone and the one that also sets every condition of lower precedence, and
\* for the selection handler every value of the field 'selection'.
Dish == <<[entity |-> "dish", value |-> "a"], [entity |-> "cuisine", value |-> "a"]>>
Cuisine(k) == <<[entity |-> "cuisine", value |-> k]>>
Responses(request) ==
    {Response(request, TRUE, FALSE, FALSE, JsUndef, <<>>),
     Response(request, TRUE, TRUE, TRUE, JsNum(1), Cuisine("a")),
     Response(request, FALSE, TRUE, FALSE, JsUndef, <<>>),
     Response(request, FALSE, TRUE, TRUE, JsNum(1), Cuisine("a")),
     Response(request, FALSE, FALSE, TRUE, JsNum(1), Cuisine("a")),
     Response(request, FALSE, FALSE, TRUE, JsNum(1), Dish),
     Response(request, FALSE, FALSE, FALSE, JsUndef, Dish),
     Response(request, FALSE, FALSE, FALSE, JsUndef, <<>>)}
    \cup {Response(request, FALSE, FALSE, FALSE, JsUndef, Cuisine(k)) : k \in Keys}
    \cup {Response(request, FALSE, FALSE, TRUE, sel, <<>>) : sel \in SelectionValues}

(***************************************************************************)
(* State                                                                   *)
(***************************************************************************)
VARIABLES
    userStateMap,   \* this.userStateMap: sender -> session state
    store,          \* the contents of the recipe store
    turns,          \* the promise chains of processMessage, one per message
    outbox,         \* the last message handed to the chat transport
    inbox,          \* the last response of the conversation service (SpecLogged)
    process,        \* run(): its position, and the constructor's slackToken
    frames          \* the web-socket frames other than text messages (SpecRun)

vars == <<userStateMap, store, turns, outbox, inbox, process, frames>>

NoState ==
    [exists |-> FALSE, userId |-> "", user |-> Undefined,
     conversationContext |-> NoContext(Undefined), ingredientCuisine |-> UndefICDoc,
     conversationStarted |-> Undefined]
NoRequest == [text |-> "", context |-> NoContext(Undefined)]
NoCall ==
    [op |-> "", key |-> "", user |-> "", ic |-> UndefICDoc, recipes |-> <<>>,
     title |-> "", text |-> <<>>]
Call(op, key, user) == [NoCall EXCEPT !.op = op, !.key = key, !.user = user]
IdleTurn ==
    [pc |-> "idle", user |-> "", text |-> "", request |-> NoRequest,
     handler |-> "", selection |-> 0, recipeId |-> "",
     ingredient |-> UndefICDoc, recipe |-> NullRecipeDoc,
     recipeInfo |-> [title |-> "", readyInMinutes |-> 0, servings |-> 0],
     calls |-> <<>>, reply |-> <<>>, err |-> ""]
DoneTurn == [IdleTurn EXCEPT !.pc = "done"]
NoMessage == [to |-> "", text |-> <<>>]
NoAnswer == [turn |-> 0, response |-> NoResponse]

\* run() has started the web-socket transport (no slackToken was given).
Running == [pc |-> "websocket", slackToken |-> FALSE]
\* No frame other than a text message has arrived.
NoFrames == [n |-> 0, client |-> "", type |-> "", pings |-> 0, pinged |-> ""]

InFlight(t) == turns[t].pc \notin {"idle", "done"}
State(t) == userStateMap[turns[t].user]
PendingCall(t) == turns[t].calls[Len(turns[t].calls)]

\* The state after construction, once run() has started the transport: no
\* message has arrived.
Init ==
    /\ userStateMap = [u \in Users |-> NoState]
    /\ store = UsedStore
    /\ turns = [t \in TurnIds |-> IdleTurn]
    /\ outbox = NoMessage
    /\ inbox = NoAnswer
    /\ process = Running
    /\ frames = NoFrames

(***************************************************************************)
(* Helpers of the actions                                                  *)
(***************************************************************************)
SetStateOfEveryone(t, st) == userStateMap' = [u \in Users |-> st]
SetState(t, st) == userStateMap' = [userStateMap EXCEPT ![turns[t].user] = st]
SetTurn(t, tr) == turns' = [turns EXCEPT ![t] = tr]
\* The chain issues a call on a collaborator and waits for its result.
Await(tr, call) == [tr EXCEPT !.pc = call.op, !.calls = Append(@, call)]
\* The handler's promise resolves with the reply.
Resolved(tr, reply) == [tr EXCEPT !.pc = "reply", !.reply = reply]
\* A callback throws, or a call rejects: the chain skips to its catch, which
\* sees the error, the state and the sender.
Rejected(tr, err) ==
    [IdleTurn EXCEPT !.pc = "error", !.user = tr.user,
                     !.handler = tr.handler, !.selection = tr.selection, !.err = err]
\* The message and the request are left behind once the response is there.
Answered(tr) == [tr EXCEPT !.text = "", !.request = NoRequest]
AwaitingCall(t, op) == turns[t].pc = op /\ PendingCall(t).op = op

clearUserStateKeepsContext(state) ==
    [state EXCEPT !.ingredientCuisine = NullICDoc, !.conversationStarted = "false"]
clearUserState(state) ==
    [state EXCEPT !.ingredientCuisine = NullICDoc,
                  !.conversationContext = NoContext(Null),
                  !.conversationStarted = "false"]

\* state.conversationContext['recipes'] = recipes; a TypeError when the
\* context is null or undefined.
CanSetRecipes(state) == ~Absent(state.conversationContext.v)
SetRecipes(state, recipes) ==
    [state EXCEPT !.conversationContext.hasRecipes = TRUE,
                  !.conversationContext.recipes = recipes]

(***************************************************************************)
(* processMessage: the synchronous part                                    *)
(***************************************************************************)
FreeTurn == CHOOSE t \in TurnIds : turns[t].pc = "idle" /\ \A s \in 1..(t - 1) : turns[s].pc # "idle"
ProcessMessage(messageSender, message) ==
    /\ \E t \in TurnIds : turns[t].pc = "idle"
    /\ Cardinality({t \in TurnIds : InFlight(t)}) < MaxInFlight
    /\ LET t == FreeTurn
           state == IF userStateMap[messageSender].exists THEN userStateMap[messageSender]
                    ELSE [NoState EXCEPT !.exists = TRUE, !.userId = messageSender]
           request == [text |-> message, context |-> state.conversationContext]
       IN /\ userStateMap' = [userStateMap EXCEPT ![messageSender] = state]
          /\ turns' = [turns EXCEPT ![t] =
                 [IdleTurn EXCEPT !.pc = "conversation", !.user = messageSender,
                                  !.text = message, !.request = request]]
    /\ UNCHANGED <<store, outbox, inbox, process, frames>>

(***************************************************************************)
(* The handlers: the part of each that runs in the dispatching callback    *)
(***************************************************************************)
StartReply(response) == [k \in 1..Len(response.output) |-> Tok(0, response.output[k])]
handleStartMessage(t, state, turn, response) ==
    LET tr == [turn EXCEPT !.handler = "start", !.reply = StartReply(response)]
    IN /\ SetState(t, state)
       /\ IF ~Absent(state.user)
          THEN SetTurn(t, Resolved(tr, tr.reply))
          ELSE SetTurn(t, Await(tr, Call("addUser", state.userId, "")))
       /\ UNCHANGED <<store, outbox>>

handleFavoritesMessage(t, state, turn) ==
    LET tr == [turn EXCEPT !.handler = "favorites"]
    IN /\ SetState(t, state)
       /\ SetTurn(t, Await(tr, Call("findFavoriteRecipesForUser", "", state.user)))
       /\ UNCHANGED <<store, outbox>>

FindOp(kind) == IF kind = "ingredient" THEN "findIngredient" ELSE "findCuisine"
RecordOp(kind) ==
    IF kind = "ingredient" THEN "recordIngredientRequestForUser"
    ELSE "recordCuisineRequestForUser"
SourceOp(kind) == IF kind = "ingredient" THEN "findByIngredients" ELSE "findByCuisine"
AddOp(kind) == IF kind = "ingredient" THEN "addIngredient" ELSE "addCuisine"

handleIngredientsMessage(t, state, turn, message) ==
    LET tr == [turn EXCEPT !.handler = "ingredients"]
        ingredientsStr == message
    IN /\ SetState(t, state)
       /\ SetTurn(t, Await(tr, Call("findIngredient", ingredientsStr, "")))
       /\ UNCHANGED <<store, outbox>>

handleCuisineMessage(t, state, turn, message) ==
    LET tr == [turn EXCEPT !.handler = "cuisine"]
        cuisineStr == message
    IN /\ SetState(t, state)
       /\ SetTurn(t, Await(tr, Call("findCuisine", cuisineStr, "")))
       /\ UNCHANGED <<store, outbox>>

\* recipes[selection - 1]["id"]: a TypeError when there is no such element.
CanSelect(state, selection) ==
    /\ state.conversationContext.hasRecipes
    /\ JsHas(state.conversationContext.recipes, selection - 1)
SelectedIdOneBased(state, selection) ==
    IF JsHas(state.conversationContext.recipes, selection)
    THEN IdStr(JsAt(state.conversationContext.recipes, selection).id)
    ELSE IdStr(JsAt(state.conversationContext.recipes, selection - 1).id)
SelectedId(state, selection) ==
    IdStr(JsAt(state.conversationContext.recipes, selection - 1).id)
handleSelectionMessage(t, state, turn, selection) ==
    LET tr == [turn EXCEPT !.handler = "selection", !.selection = selection]
    IN /\ IF InRange(selection)
          THEN IF CanSelect(state, selection)
               THEN LET recipeId == SelectedId(state, selection)
                    IN /\ SetState(t, state)
                       /\ SetTurn(t, Await([tr EXCEPT !.recipeId = recipeId],
                                           Call("findRecipe", recipeId, "")))
               ELSE /\ SetState(t, state)
                    /\ SetTurn(t, Rejected(tr, "TypeError"))
          ELSE /\ SetState(t, clearUserState(state))
               /\ SetTurn(t, Resolved(tr, InvalidSelection))
       /\ UNCHANGED <<store, outbox>>

(***************************************************************************)
(* processMessage: the callback of the conversation service's response     *)
(***************************************************************************)
SelectionOf(context) ==
    IF Truthy(context.selection) THEN ParseInt(context.selection) ELSE 0 - 1
RoutePrefersSelection(response) ==
    IF response.context.is_favorites THEN "favorites"
    ELSE IF response.context.is_ingredients THEN "ingredients"
    ELSE IF response.context.is_selection THEN "selection"
    ELSE IF Len(response.entities) > 0 /\ JsAt(response.entities, 0).entity = "cuisine"
         THEN "cuisine"
    ELSE "start"
Route(response) ==
    IF response.context.is_favorites THEN "favorites"
    ELSE IF response.context.is_ingredients THEN "ingredients"
    ELSE IF Len(response.entities) > 0 /\ JsAt(response.entities, 0).entity = "cuisine"
         THEN "cuisine"
    ELSE IF response.context.is_selection THEN "selection"
    ELSE "start"
Dispatch(t, logged) ==
    /\ turns[t].pc = "conversation"
    /\ \E response \in Responses(turns[t].request) :
         LET state == [State(t) EXCEPT !.conversationContext = response.context]
             turn == Answered(turns[t])
             message == turns[t].text
             route == Route(response)
         IN /\ inbox' = IF logged THEN [turn |-> t, response |-> response] ELSE inbox
            /\ UNCHANGED <<process, frames>>
            /\ CASE route = "favorites" -> handleFavoritesMessage(t, state, turn)
                 [] route = "ingredients" -> handleIngredientsMessage(t, state, turn, message)
                 [] route = "cuisine" ->
                       handleCuisineMessage(t, state, turn, JsAt(response.entities, 0).value)
                 [] route = "selection" ->
                       handleSelectionMessage(t, state, turn, SelectionOf(state.conversationContext))
                 [] OTHER -> handleStartMessage(t, state, turn, response)

ConversationResolves(t) == Dispatch(t, FALSE)
\* The same callback, with the response kept in inbox.
ConversationAnswers(t) == Dispatch(t, TRUE)

\* .then((reply) => sendMessageToClient(data, reply))
Reply(t) ==
    /\ turns[t].pc = "reply"
    /\ outbox' = [to |-> turns[t].user, text |-> turns[t].reply]
    /\ SetTurn(t, DoneTurn)
    /\ UNCHANGED <<userStateMap, store, inbox, process, frames>>

CatchErrorSilent(t) ==
    /\ turns[t].pc = "error"
    /\ SetState(t, clearUserState(State(t)))
    /\ SetTurn(t, DoneTurn)
    /\ UNCHANGED <<store, outbox, inbox, process, frames>>
\* .catch((err) => ...)
CatchError(t) ==
    /\ turns[t].pc = "error"
    /\ SetState(t, clearUserState(State(t)))
    /\ outbox' = [to |-> turns[t].user, text |-> Fallback]
    /\ SetTurn(t, DoneTurn)
    /\ UNCHANGED <<store, inbox, process, frames>>

(***************************************************************************)
(* The handlers: the callbacks of their store and recipe-source calls      *)
(***************************************************************************)
\* handleStartMessage: .then((user) => { state.user = user; ... })
AddUserResolves(t) ==
    /\ AwaitingCall(t, "addUser")
    /\ LET user == PendingCall(t).key
       IN /\ store' = StoreAddUser(store, user)
          /\ SetState(t, [State(t) EXCEPT !.user = user])
    /\ SetTurn(t, Resolved(turns[t], turns[t].reply))
    /\ UNCHANGED <<outbox, inbox, process, frames>>

ListThenKeepsAttribution(t, recipes, ingredientCuisine) ==
    IF CanSetRecipes(State(t))
    THEN /\ SetState(t, SetRecipes(State(t), recipes))
         /\ SetTurn(t, Resolved(turns[t], getRecipeListResponse(recipes)))
    ELSE /\ SetTurn(t, Rejected(turns[t], "TypeError"))
         /\ UNCHANGED userStateMap
\* The last callback of the ingredients, cuisine and favorites handlers.
ListThen(t, recipes, ingredientCuisine) ==
    IF CanSetRecipes(State(t))
    THEN /\ SetState(t, [SetRecipes(State(t), recipes) EXCEPT
                            !.ingredientCuisine = ingredientCuisine])
         /\ SetTurn(t, Resolved(turns[t], getRecipeListResponse(recipes)))
    ELSE /\ SetTurn(t, Rejected(turns[t], "TypeError"))
         /\ UNCHANGED userStateMap

FavoritesLimit == 5
FindFavoritesResolves(t) ==
    /\ AwaitingCall(t, "findFavoriteRecipesForUser")
    /\ StoreAccepts(PendingCall(t).user)
    /\ LET recipes == StoreFindFavorites(store, PendingCall(t).user, FavoritesLimit)
       IN ListThen(t, recipes, NullICDoc)
    /\ UNCHANGED <<store, outbox, inbox, process, frames>>

FindResolvesNeverHits(t, kind) ==
    /\ AwaitingCall(t, FindOp(kind))
    /\ SetTurn(t, Await(turns[t], Call(SourceOp(kind), PendingCall(t).key, "")))
    /\ UNCHANGED <<userStateMap, store, outbox, inbox, process, frames>>
FindResolves(t, kind) ==
    /\ AwaitingCall(t, FindOp(kind))
    /\ LET key == PendingCall(t).key
           found == StoreFindIC(store, kind, key)
       IN IF found.v = "obj"
          THEN SetTurn(t, Await([turns[t] EXCEPT !.ingredient = found],
                                Call(RecordOp(kind), key, State(t).user)))
          ELSE SetTurn(t, Await(turns[t], Call(SourceOp(kind), key, "")))
    /\ UNCHANGED <<userStateMap, store, outbox, inbox, process, frames>>

RecordResolves(t, kind) ==
    /\ AwaitingCall(t, RecordOp(kind))
    /\ StoreAccepts(PendingCall(t).user)
    /\ store' = StoreRecordIC(store, kind, PendingCall(t).key, PendingCall(t).user)
    /\ ListThen(t, turns[t].ingredient.recipes, turns[t].ingredient)
    /\ UNCHANGED <<outbox, inbox, process, frames>>

SourceResolvesDropsRecipes(t, kind) ==
    /\ AwaitingCall(t, SourceOp(kind))
    /\ SetTurn(t, Await(turns[t], Call(AddOp(kind), PendingCall(t).key, State(t).user)))
    /\ UNCHANGED <<userStateMap, store, outbox, inbox, process, frames>>
SourceResolves(t, kind) ==
    /\ AwaitingCall(t, SourceOp(kind))
    /\ LET key == PendingCall(t).key
           matchingRecipes == CandidatesFor(key)
       IN SetTurn(t, Await(turns[t],
              [Call(AddOp(kind), key, State(t).user) EXCEPT !.recipes = matchingRecipes]))
    /\ UNCHANGED <<userStateMap, store, outbox, inbox, process, frames>>

AddResolves(t, kind) ==
    /\ AwaitingCall(t, AddOp(kind))
    /\ StoreAccepts(PendingCall(t).user)
    /\ LET call == PendingCall(t)
           added == StoreAddIC(store, kind, call.key, call.recipes, call.user)
           ingredient == StoreFindIC(added, kind, call.key)
       IN /\ store' = added
          /\ ListThen(t, ingredient.recipes, ingredient)
    /\ UNCHANGED <<outbox, inbox, process, frames>>

FindIngredientResolves(t) == FindResolves(t, "ingredient")
RecordIngredientRequestResolves(t) == RecordResolves(t, "ingredient")
FindByIngredientsResolves(t) == SourceResolves(t, "ingredient")
AddIngredientResolves(t) == AddResolves(t, "ingredient")
FindCuisineResolves(t) == FindResolves(t, "cuisine")
RecordCuisineRequestResolves(t) == RecordResolves(t, "cuisine")
FindByCuisineResolves(t) == SourceResolves(t, "cuisine")
AddCuisineResolves(t) == AddResolves(t, "cuisine")

SelectionThenKeepsState(t, recipe) ==
    /\ SetTurn(t, Resolved(turns[t], recipe.instructions))
    /\ UNCHANGED userStateMap
\* The last callback of the selection handler.
SelectionThen(t, recipe) ==
    /\ SetState(t, clearUserState(State(t)))
    /\ SetTurn(t, Resolved(turns[t], recipe.instructions))

FindRecipeResolves(t) ==
    /\ AwaitingCall(t, "findRecipe")
    /\ LET recipeId == turns[t].recipeId
           recipe == StoreFindRecipe(store, recipeId)
       IN IF recipe.v = "obj"
          THEN SetTurn(t, Await([turns[t] EXCEPT !.recipe = recipe],
                   [Call("recordRecipeRequestForUser", recipeId, State(t).user)
                       EXCEPT !.ic = State(t).ingredientCuisine]))
          ELSE SetTurn(t, Await(turns[t], Call("getInfoById", recipeId, "")))
    /\ UNCHANGED <<userStateMap, store, outbox, inbox, process, frames>>

RecordRecipeRequestResolves(t) ==
    /\ AwaitingCall(t, "recordRecipeRequestForUser")
    /\ StoreAccepts(PendingCall(t).user)
    /\ store' = StoreRecordRecipe(store, PendingCall(t).key, PendingCall(t).user)
    /\ SelectionThen(t, turns[t].recipe)
    /\ UNCHANGED <<outbox, inbox, process, frames>>

GetInfoByIdResolvesSkipsSteps(t) ==
    /\ AwaitingCall(t, "getInfoById")
    /\ LET recipeId == turns[t].recipeId
           recipeInfo == InfoFor(recipeId)
       IN SetTurn(t, Await([turns[t] EXCEPT !.recipeInfo = recipeInfo],
              [Call("addRecipe", recipeId, State(t).user) EXCEPT
                  !.title = recipeInfo.title,
                  !.text = getRecipeInstructionsResponse(recipeInfo, <<>>),
                  !.ic = State(t).ingredientCuisine]))
    /\ UNCHANGED <<userStateMap, store, outbox, inbox, process, frames>>
GetInfoByIdResolves(t) ==
    /\ AwaitingCall(t, "getInfoById")
    /\ LET recipeId == turns[t].recipeId
           recipeInfo == InfoFor(recipeId)
       IN SetTurn(t, Await([turns[t] EXCEPT !.recipeInfo = recipeInfo],
                           Call("getStepsById", recipeId, "")))
    /\ UNCHANGED <<userStateMap, store, outbox, inbox, process, frames>>

GetStepsByIdResolves(t) ==
    /\ AwaitingCall(t, "getStepsById")
    /\ LET recipeId == turns[t].recipeId
           recipeInfo == turns[t].recipeInfo
           recipeSteps == StepsFor(recipeId)
           recipeDetail == getRecipeInstructionsResponse(recipeInfo, recipeSteps)
       IN SetTurn(t, Await(turns[t],
              [Call("addRecipe", recipeId, State(t).user) EXCEPT
                  !.title = recipeInfo.title, !.text = recipeDetail,
                  !.ic = State(t).ingredientCuisine]))
    /\ UNCHANGED <<userStateMap, store, outbox, inbox, process, frames>>

AddRecipeResolves(t) ==
    /\ AwaitingCall(t, "addRecipe")
    /\ StoreAccepts(PendingCall(t).user)
    /\ LET call == PendingCall(t)
           added == StoreAddRecipe(store, call.key, call.title, call.text, call.ic, call.user)
       IN /\ store' = added
          /\ SelectionThen(t, StoreFindRecipe(added, call.key))
    /\ UNCHANGED <<outbox, inbox, process, frames>>

\* The conversation service, the store or the recipe source fails the call.
CallRejects(t) ==
    /\ turns[t].pc \notin {"idle", "done", "reply", "error"}
    /\ SetTurn(t, Rejected(turns[t], "rejected"))
    /\ UNCHANGED <<userStateMap, store, outbox, inbox, process, frames>>

Callback(t) ==
        \/ AddUserResolves(t)
        \/ FindFavoritesResolves(t)
        \/ FindIngredientResolves(t)
        \/ RecordIngredientRequestResolves(t)
        \/ FindByIngredientsResolves(t)
        \/ AddIngredientResolves(t)
        \/ FindCuisineResolves(t)
        \/ RecordCuisineRequestResolves(t)
        \/ FindByCuisineResolves(t)
        \/ AddCuisineResolves(t)
        \/ FindRecipeResolves(t)
        \/ RecordRecipeRequestResolves(t)
        \/ GetInfoByIdResolves(t)
        \/ GetStepsByIdResolves(t)
        \/ AddRecipeResolves(t)
        \/ CallRejects(t)
        \/ Reply(t)
        \/ CatchError(t)

Next ==
    \/ \E u \in Users, text \in Keys : ProcessMessage(u, text)
    \/ \E t \in TurnIds : ConversationResolves(t)
    \/ \E t \in TurnIds : Callback(t)

Spec == Init /\ [][Next]_vars

\* The same program, with the last response of the conversation service kept.
NextLogged ==
    \/ \E u \in Users, text \in Keys : ProcessMessage(u, text)
    \/ \E t \in TurnIds : ConversationAnswers(t)
    \/ \E t \in TurnIds : Callback(t)

SpecLogged == Init /\ [][NextLogged]_vars

\* The program after u1's first message was greeted by the start handler: the
\* session of u1 exists with its user record attached and the context of that
\* response; MaxTurns further messages follow.
Greeting == Response(NoRequest, FALSE, FALSE, FALSE, JsUndef, <<>>)
GreetedState ==
    [NoState EXCEPT !.exists = TRUE, !.userId = "u1", !.user = "u1",
                    !.conversationContext = Greeting.context]
InitReturning ==
    /\ userStateMap = [u \in Users |-> IF u = "u1" THEN GreetedState ELSE NoState]
    /\ store = UsedStore
    /\ turns = [t \in TurnIds |-> IdleTurn]
    /\ outbox = [to |-> "u1", text |-> StartReply(Greeting)]
    /\ inbox = NoAnswer
    /\ process = Running
    /\ frames = NoFrames

SpecReturning == InitReturning /\ [][Next]_vars

\* The turns of the program when the transport hands over a message only
\* after the turn before it has ended.
SerialMessage(messageSender, message) ==
    /\ \A t \in TurnIds : ~InFlight(t)
    /\ ProcessMessage(messageSender, message)
NextSerial ==
    \/ \E u \in Users, text \in Keys : SerialMessage(u, text)
    \/ \E t \in TurnIds : ConversationResolves(t)
    \/ \E t \in TurnIds : Callback(t)

\* A store in which an earlier run has kept, for ingredient "a", a candidate
\* list of one to six recipes as the recipe source returned it then.
SixCandidates ==
    <<Candidate(3), Candidate(1), Candidate(4), Candidate(2), Candidate(5), Candidate(6)>>
InitLongList ==
    /\ userStateMap = [u \in Users |-> IF u = "u1" THEN GreetedState ELSE NoState]
    /\ \E n \in 1..Len(SixCandidates) :
          store = [UsedStore EXCEPT !.ingredient["a"].recipes = SubSeq(SixCandidates, 1, n)]
    /\ turns = [t \in TurnIds |-> IdleTurn]
    /\ outbox = [to |-> "u1", text |-> StartReply(Greeting)]
    /\ inbox = NoAnswer
    /\ process = Running
    /\ frames = NoFrames

SpecLongList == InitLongList /\ [][NextSerial]_vars

\* Every call on the conversation service, the store or the recipe source
\* ends, resolved or rejected, and a callback that is due runs.
SpecLive ==
    Init /\ [][Next]_vars /\ WF_vars(\E t \in TurnIds : ConversationResolves(t) \/ Callback(t))

(***************************************************************************)
(* run() and the two transports                                            *)
(***************************************************************************)
Constructed(slackToken) == [pc |-> "constructed", slackToken |-> slackToken]
InitRun ==
    /\ userStateMap = [u \in Users |-> NoState]
    /\ store = UsedStore
    /\ turns = [t \in TurnIds |-> IdleTurn]
    /\ outbox = NoMessage
    /\ inbox = NoAnswer
    /\ process \in {Constructed(TRUE), Constructed(FALSE)}
    /\ frames = NoFrames

\* run(): this.recipeStore.init()
Run ==
    /\ process.pc = "constructed"
    /\ process' = [process EXCEPT !.pc = "init"]
    /\ UNCHANGED <<userStateMap, store, turns, outbox, inbox, frames>>

\* .then(() => { if (this.slackToken) runSlackBot() else runWebSocketBot() })
StoreInitResolves ==
    /\ process.pc = "init"
    /\ process' = [process EXCEPT !.pc = IF process.slackToken THEN "slack" ELSE "websocket"]
    /\ UNCHANGED <<userStateMap, store, turns, outbox, inbox, frames>>

StoreInitRejectsStartsBot ==
    /\ process.pc = "init"
    /\ process' = [process EXCEPT !.pc = "websocket"]
    /\ UNCHANGED <<userStateMap, store, turns, outbox, inbox, frames>>
\* .catch((error) => { console.log(...); process.exit(); })
StoreInitRejects ==
    /\ process.pc = "init"
    /\ process' = [process EXCEPT !.pc = "exited"]
    /\ UNCHANGED <<userStateMap, store, turns, outbox, inbox, frames>>

\* The events of the Slack connection: data.type, whether data.channel starts
\* with 'D', whether data.bot_id is set, data.user and data.text.
SlackEvents ==
    [type : {"message", "hello"}, direct : BOOLEAN, bot : BOOLEAN, user : Users, text : Keys]
\* this.slackBot.on('message', (data) => ...)
SlackMessage(data) ==
    /\ process.pc = "slack"
    /\ IF data.type = "message" /\ data.direct /\ ~data.bot
       THEN ProcessMessage(data.user, data.text)
       ELSE UNCHANGED vars

\* The frames of a web-socket client: msg.type and msg.text.
WebSocketFrames == [type : {"msg", "ping", "pong"}, text : Keys]
WebSocketMessageIgnoresPing(client, msg) ==
    /\ process.pc = "websocket"
    /\ IF msg.type = "msg"
       THEN ProcessMessage(client, msg.text)
       ELSE /\ frames.n < MaxFrames
            /\ frames' = [frames EXCEPT !.n = @ + 1, !.client = client, !.type = msg.type]
            /\ UNCHANGED <<userStateMap, store, turns, outbox, inbox, process>>
\* this.webSocketBot.on('message', (client, msg) => ...); the user of a text
\* message is client.id.
WebSocketMessage(client, msg) ==
    /\ process.pc = "websocket"
    /\ IF msg.type = "msg"
       THEN ProcessMessage(client, msg.text)
       ELSE /\ frames.n < MaxFrames
            /\ frames' =
                 IF msg.type = "ping"
                 THEN [n |-> frames.n + 1, client |-> client, type |-> msg.type,
                       pings |-> frames.pings + 1, pinged |-> client]
                 ELSE [frames EXCEPT !.n = @ + 1, !.client = client, !.type = msg.type]
            /\ UNCHANGED <<userStateMap, store, turns, outbox, inbox, process>>

\* A text message arrives only when no turn is open; other events and frames
\* arrive at any time.
Quiet(type) == type \in {"message", "msg"} => \A t \in TurnIds : ~InFlight(t)
NextRun ==
    \/ Run
    \/ StoreInitResolves
    \/ StoreInitRejects
    \/ \E data \in SlackEvents : Quiet(data.type) /\ SlackMessage(data)
    \/ \E client \in Users, msg \in WebSocketFrames : Quiet(msg.type) /\ WebSocketMessage(client, msg)
    \/ \E t \in TurnIds : ConversationResolves(t)
    \/ \E t \in TurnIds : Callback(t)

SpecRun == InitRun /\ [][NextRun]_vars

(***************************************************************************)
(* Properties                                                              *)
(***************************************************************************)
FirstIsCuisine(r) == Len(r.entities) > 0 /\ r.entities[1].entity = "cuisine"
Cleared(state) ==
    /\ state.conversationContext.v = Null
    /\ state.ingredientCuisine.v = Null
\* The step in which turn t's conversation response is dispatched to a handler.
DispatchStep(t) == turns[t].pc = "conversation" /\ turns'[t].handler # ""
Session(t) == userStateMap[turns[t].user]
SessionAfter(t) == userStateMap'[turns[t].user]

\* The routing of section 4.2 step 4, without the argument of the selection
\* handler.
RoutedByPrecedence(t) ==
    LET r == inbox'.response
        c == r.context
        h == turns'[t].handler
    IN /\ inbox'.turn = t
       /\ c.is_favorites => h = "favorites"
       /\ (~c.is_favorites /\ c.is_ingredients) =>
             /\ h = "ingredients"
             /\ turns'[t].calls = <<Call("findIngredient", turns[t].text, "")>>
       /\ (~c.is_favorites /\ ~c.is_ingredients /\ FirstIsCuisine(r)) =>
             /\ h = "cuisine"
             /\ turns'[t].calls = <<Call("findCuisine", r.entities[1].value, "")>>
       /\ (~c.is_favorites /\ ~c.is_ingredients /\ ~FirstIsCuisine(r) /\ c.is_selection) =>
             h = "selection"
       /\ (~c.is_favorites /\ ~c.is_ingredients /\ ~FirstIsCuisine(r) /\ ~c.is_selection) =>
             h = "start"

\* C1 as stated: every response is routed to one handler by the precedence
\* favorites, ingredients, cuisine entity, selection, start, and the selection
\* handler gets the integer parsed from the field 'selection', or -1 when the
\* field is absent.
C1_AsStated ==
    [][\A t \in TurnIds : DispatchStep(t) =>
        /\ RoutedByPrecedence(t)
        /\ turns'[t].handler = "selection" =>
             LET sel == inbox'.response.context.selection
             IN /\ sel.t = "undefined" => turns'[t].selection = 0 - 1
                /\ (sel.t # "undefined" /\ ParseInt(sel) # NaN) =>
                      turns'[t].selection = ParseInt(sel)]_vars

\* C1 amended: the same precedence; the selection handler gets -1 when the field
\* 'selection' is absent or falsy (the number 0, the empty string), and
\* otherwise what parseInt makes of the field (NaN for a text that starts with
\* no number).
C1_Routing ==
    [][\A t \in TurnIds : DispatchStep(t) =>
        /\ RoutedByPrecedence(t)
        /\ turns'[t].handler = "selection" =>
             LET sel == inbox'.response.context.selection
                 falsy == \/ sel.t = "undefined"
                          \/ (sel.t = "number" /\ sel.n = 0)
                          \/ (sel.t = "string" /\ sel.s = "")
             IN turns'[t].selection = IF falsy THEN 0 - 1 ELSE ParseInt(sel)]_vars
C1_Witness ==
    \E t \in TurnIds :
        /\ inbox.turn = t
        /\ inbox.response.context.is_ingredients
        /\ inbox.response.context.is_selection
        /\ FirstIsCuisine(inbox.response)
        /\ turns[t].pc = "findIngredient"

\* What a step may do to turn t around a failure.
C2_FailedTurn(t) ==
    /\ turns[t].pc = "error" =>
         \/ turns'[t] = turns[t]
         \/ /\ turns'[t].pc = "done"
            /\ Cleared(SessionAfter(t))
            /\ outbox' = [to |-> turns[t].user, text |-> Fallback]
    /\ turns[t].pc = "reply" => turns'[t].pc \in {"reply", "done"}
    /\ (InFlight(t) /\ turns[t].pc # "error" /\ turns'[t].err # "") => turns'[t].pc = "error"
\* C2: a turn fails when a call rejects or a callback throws; the catch of a
\* failed turn clears the session's context and attribution and sends the
\* fallback text to the sender, a failed turn does nothing else, and a turn
\* whose handler has resolved does not fail.
C2_FailureClearsAndFallsBack == [][\A t \in TurnIds : C2_FailedTurn(t)]_vars
C2_Witness ==
    \E u \in Users :
        /\ outbox = [to |-> u, text |-> Fallback]
        /\ Cleared(userStateMap[u])
        /\ userStateMap[u].user # Undefined

\* C3: no two turns of one user are in flight at the same time.
C3_OneTurnPerUser ==
    \A t1, t2 \in TurnIds :
        (t1 # t2 /\ InFlight(t1) /\ InFlight(t2)) => turns[t1].user # turns[t2].user

\* What a step may do to a turn whose selection is outside 1..5.
C4_InvalidSelection(t) ==
    LET invalid(tr) == tr.handler = "selection" /\ tr.selection \notin 1..5
    IN /\ (DispatchStep(t) /\ invalid(turns'[t])) =>
             /\ turns'[t].pc = "reply"
             /\ turns'[t].reply = InvalidSelection
             /\ turns'[t].calls = <<>>
             /\ Cleared(SessionAfter(t))
             /\ store' = store
       /\ (invalid(turns[t]) /\ turns'[t] # turns[t]) =>
             /\ turns[t].pc = "reply"
             /\ turns'[t].pc = "done"
             /\ outbox' = [to |-> turns[t].user, text |-> InvalidSelection]
             /\ store' = store
\* C4: a selection outside 1..5 (NaN included) makes the selection handler
\* clear the session and resolve with the invalid-selection text, without any
\* call on the store or the recipe source; that text is what the turn sends.
C4_InvalidSelectionHandled == [][\A t \in TurnIds : C4_InvalidSelection(t)]_vars
C4_Witness ==
    \E t \in TurnIds :
        /\ turns[t].handler = "selection"
        /\ turns[t].selection = NaN
        /\ turns[t].pc = "reply"
        /\ Session(t).user # Undefined

\* C5: a selection within 1..5 beyond the end of the session's candidate list
\* makes the selection handler clear the session and resolve with the
\* invalid-selection text.
C5_BeyondListIsInvalid ==
    [][\A t \in TurnIds :
        (/\ DispatchStep(t)
         /\ turns'[t].handler = "selection"
         /\ turns'[t].selection \in 1..5
         /\ SessionAfter(t).conversationContext.hasRecipes
         /\ turns'[t].selection > Len(SessionAfter(t).conversationContext.recipes)
         /\ Len(SessionAfter(t).conversationContext.recipes) > 0) =>
            /\ turns'[t].pc = "reply"
            /\ turns'[t].reply = InvalidSelection]_vars

\* What a step may do to the calls of a selection turn.
C6_Selects(t) ==
    /\ (/\ DispatchStep(t)
        /\ turns'[t].handler = "selection"
        /\ turns'[t].selection \in 1..5
        /\ turns'[t].selection <= Len(SessionAfter(t).conversationContext.recipes)) =>
           LET n == turns'[t].selection
               candidate == SessionAfter(t).conversationContext.recipes[n]
           IN /\ turns'[t].pc = "findRecipe"
              /\ turns'[t].calls = <<Call("findRecipe", IdStr(candidate.id), "")>>
    /\ turns'[t].handler = "selection" =>
          \A i \in DOMAIN turns'[t].calls :
              /\ turns'[t].calls[i].op = "findRecipe" <=> i = 1
              /\ turns'[t].calls[i].key = turns'[t].calls[1].key
\* C6: a selection n within 1..5 and within the candidate list of the session's
\* context looks up the recipe whose id is that of the n-th candidate of the
\* list, and the turn looks up no other recipe.
C6_SelectsByPosition == [][\A t \in TurnIds : C6_Selects(t)]_vars
C6_Witness ==
    \E t \in TurnIds :
        /\ turns[t].pc = "findRecipe"
        /\ turns[t].selection = 1
        /\ Len(Session(t).conversationContext.recipes) = 5
        /\ PendingCall(t).key = "3"

KindOf(t) == IF turns[t].handler = "ingredients" THEN "ingredient" ELSE "cuisine"
ListTurn(t) == turns[t].handler \in {"ingredients", "cuisine"} /\ turns[t].calls # <<>>
KeyOf(t) == turns[t].calls[1].key
\* A step of turn t in which the call it waits for resolves.
ResolveStep(t, op) ==
    turns[t].pc = op /\ turns'[t] # turns[t] /\ turns'[t].err # "rejected"
RequestsOf(s) ==
    [x \in ({"ingredient", "cuisine"} \X Keys) \cup ({"recipe"} \X RecipeIds) |->
        IF x[1] = "recipe" THEN s.recipes[x[2]].requests ELSE s[x[1]][x[2]].requests]

\* The steps of a list turn whose key the store has.
C7_Hit(t) ==
    LET kind == KindOf(t)
        key == KeyOf(t)
    IN /\ (ListTurn(t) /\ ResolveStep(t, FindOp(kind)) /\ store[kind][key].exists) =>
             /\ turns'[t].pc = RecordOp(kind)
             /\ turns'[t].calls =
                   <<Call(FindOp(kind), key, ""), Call(RecordOp(kind), key, Session(t).user)>>
             /\ store' = store
       /\ (ListTurn(t) /\ ResolveStep(t, RecordOp(kind))) =>
             LET user == PendingCall(t).user
             IN /\ store'[kind][key].requests[user] = store[kind][key].requests[user] + 1
                /\ \A x \in DOMAIN RequestsOf(store), u \in Users :
                      (x # <<kind, key>> \/ u # user) =>
                          RequestsOf(store')[x][u] = RequestsOf(store)[x][u]
                /\ turns'[t].pc \in {"reply", "error"}
                /\ turns'[t].pc = "reply" => turns'[t].calls = turns[t].calls
C7_CountersChangeOnRecord ==
    \A kind \in {"ingredient", "cuisine"}, key \in Keys :
        store'[kind][key].requests # store[kind][key].requests =>
            \E t \in TurnIds :
                ListTurn(t) /\ KindOf(t) = kind /\ KeyOf(t) = key
                /\ ResolveStep(t, RecordOp(kind))
\* C7: when the store has a record for the key, the ingredients (cuisine)
\* handler calls recordIngredientRequestForUser (recordCuisineRequestForUser)
\* once and never the recipe source; the call, when it resolves, adds one to
\* that user's request counter of that record; no other step changes a counter
\* of an ingredient or cuisine record.
C7_HitRecordsOnce == [][C7_CountersChangeOnRecord /\ \A t \in TurnIds : C7_Hit(t)]_vars
C7_Witness ==
    \E t \in TurnIds :
        /\ turns[t].handler = "ingredients"
        /\ turns[t].pc = "reply"
        /\ Len(turns[t].calls) = 2
        /\ store.ingredient["a"].requests[turns[t].user] = 2

\* The steps of a list turn whose key the store lacks.
C8_Miss(t) ==
    LET kind == KindOf(t)
        key == KeyOf(t)
    IN /\ (ListTurn(t) /\ ResolveStep(t, FindOp(kind)) /\ ~store[kind][key].exists) =>
             /\ turns'[t].pc = SourceOp(kind)
             /\ turns'[t].calls = <<Call(FindOp(kind), key, ""), Call(SourceOp(kind), key, "")>>
             /\ store' = store
       /\ (ListTurn(t) /\ ResolveStep(t, SourceOp(kind))) =>
             /\ turns'[t].pc = AddOp(kind)
             /\ turns'[t].calls =
                   <<Call(FindOp(kind), key, ""), Call(SourceOp(kind), key, ""),
                     [Call(AddOp(kind), key, Session(t).user) EXCEPT
                         !.recipes = CandidatesFor(key)]>>
             /\ store' = store
       /\ (ListTurn(t) /\ turns[t].pc = SourceOp(kind) /\ ~ResolveStep(t, SourceOp(kind))) =>
             turns'[t].pc \in {SourceOp(kind), "error"}
       /\ (ListTurn(t) /\ ResolveStep(t, AddOp(kind))) =>
             /\ store'[kind][key].exists
             /\ RequestsOf(store') = RequestsOf(store)
             /\ turns'[t].pc \in {"reply", "error"}
             /\ turns'[t].pc = "reply" =>
                   /\ turns'[t].calls = turns[t].calls
                   /\ turns'[t].reply = getRecipeListResponse(store'[kind][key].recipes)
       /\ (ListTurn(t) /\ turns'[t].pc = "reply" /\ Len(turns'[t].calls) = 3) =>
             /\ store'[kind][key].exists
             /\ turns'[t].calls[3].op = AddOp(kind)
\* C8: when the store has no record for the key, the handler calls the recipe
\* source once with the key, then, when that call has resolved, addIngredient
\* (addCuisine) once with the key, the candidates returned and the session's
\* user; it resolves with the list once the record is in the store, and no
\* request counter changes.
C8_MissFetchesThenPersists == [][\A t \in TurnIds : C8_Miss(t)]_vars
C8_Witness ==
    \E t \in TurnIds :
        /\ turns[t].handler = "cuisine"
        /\ turns[t].pc = "reply"
        /\ Len(turns[t].calls) = 3
        /\ turns[t].calls[3].op = "addCuisine"
        /\ store.cuisine[KeyOf(t)].recipes = CandidatesFor(KeyOf(t))
        /\ store.cuisine[KeyOf(t)].by = turns[t].user

\* The step in which the last call of a selection turn resolves.
C9_SelectionDone(t) ==
    (ResolveStep(t, "recordRecipeRequestForUser") \/ ResolveStep(t, "addRecipe")) =>
        /\ turns'[t].pc = "reply"
        /\ Cleared(SessionAfter(t))
        /\ SessionAfter(t).exists
        /\ SessionAfter(t).userId = Session(t).userId
        /\ SessionAfter(t).user = Session(t).user
        /\ store'.recipes[turns[t].recipeId].exists
        /\ turns'[t].reply = store'.recipes[turns[t].recipeId].instructions
\* C9: when the selection handler's last call (recordRecipeRequestForUser on a
\* hit, addRecipe on a miss) resolves, the session's context and attribution
\* are cleared, its userId and user record stay, and the handler resolves with
\* the instructions of the store's record of the selected recipe.
C9_SelectionClearsAndReplies == [][\A t \in TurnIds : C9_SelectionDone(t)]_vars
C9_Witness ==
    \E t \in TurnIds :
        /\ turns[t].handler = "selection"
        /\ turns[t].pc = "reply"
        /\ Len(turns[t].calls) = 4
        /\ Cleared(Session(t))
        /\ Session(t).user = turns[t].user
        /\ turns[t].reply = store.recipes[turns[t].recipeId].instructions

\* C10: addUser completes for a session only while the session has no user
\* record: a record once attached is not replaced.
C10_UserAttachedOnce ==
    [][\A t \in TurnIds : ResolveStep(t, "addUser") => Absent(Session(t).user)]_vars

\* C11: every addRecipe call carries an ingredient/cuisine record, never an
\* absent one: the call the selection handler issues after getStepsById has a
\* document as its attribution.
C11_RecipeAttributed ==
    [][\A t \in TurnIds :
        (turns[t].pc = "getStepsById" /\ turns'[t].pc = "addRecipe") =>
            turns'[t].calls[Len(turns'[t].calls)].ic.v = "obj"]_vars

\* The state from which SpecReturning starts, as Spec reaches it.
GreetedReached ==
    /\ userStateMap = [u \in Users |-> IF u = "u1" THEN GreetedState ELSE NoState]
    /\ store = UsedStore
    /\ turns = [t \in TurnIds |-> IF t = 1 THEN DoneTurn ELSE IdleTurn]
    /\ outbox = [to |-> "u1", text |-> StartReply(Greeting)]

\* C12: when the last text sent to a user is the rendering of the candidate
\* list the session's context holds, and the next turn of that user is a selection
\* of a number printed in that text, the turn looks up the recipe of a
\* candidate of the list whose title is the one printed next to the number.
C12_RoundTrip ==
    [][\A t \in TurnIds :
        LET L == Session(t).conversationContext.recipes
        IN (/\ DispatchStep(t)
            /\ turns'[t].handler = "selection"
            /\ outbox = [to |-> turns[t].user, text |-> getRecipeListResponse(L)]) =>
              \A k \in DOMAIN outbox.text :
                 (outbox.text[k].n > 0 /\ outbox.text[k].n = turns'[t].selection) =>
                    /\ turns'[t].pc = "findRecipe"
                    /\ \E j \in DOMAIN L :
                          /\ j = outbox.text[k].n
                          /\ L[j].title = outbox.text[k].text
                          /\ turns'[t].recipeId = IdStr(L[j].id)]_vars

\* The user whose message turn t handles, in a step that starts, advances or
\* ends the turn.
OwnerOf(t) == IF turns[t].user # "" THEN turns[t].user ELSE turns'[t].user
\* C13: a step changes the session of a user only if it is a step of a turn of
\* that user; the request a new turn sends carries the context of its own
\* user's session, a call on the store carries the user record of its own
\* session, and the text a turn sends, reply or fallback, goes to its own user.
C13_UsersIndependent ==
    [][\A t \in TurnIds : turns'[t] # turns[t] =>
        /\ \A u \in Users \ {OwnerOf(t)} : userStateMap'[u] = userStateMap[u]
        /\ turns'[t].pc = "conversation" =>
              turns'[t].request.context = userStateMap'[OwnerOf(t)].conversationContext
        /\ (InFlight(t) /\ Len(turns'[t].calls) > Len(turns[t].calls)) =>
              turns'[t].calls[Len(turns'[t].calls)].user \in {"", Session(t).user, Session(t).userId}
        /\ (turns[t].pc \in {"reply", "error"} /\ turns'[t].pc = "done") =>
              outbox'.to = turns[t].user
        /\ turns'[t].pc # "done" => outbox' = outbox]_vars
C13_Witness ==
    /\ outbox = [to |-> "u2", text |-> Fallback]
    /\ Cleared(userStateMap["u2"])
    /\ userStateMap["u1"].conversationContext.hasRecipes
    /\ userStateMap["u1"].ingredientCuisine.v = "obj"
    /\ \E t \in TurnIds : InFlight(t) /\ turns[t].user = "u1"

\* A turn ends only in a step that sends one text to its sender: the handler's
\* reply when the handler resolved, the fallback when the turn failed; a turn
\* that has ended sends nothing more.
C14_OneText(t) ==
    /\ (InFlight(t) /\ turns'[t].pc = "done") =>
          /\ turns[t].pc \in {"reply", "error"}
          /\ outbox' = [to |-> turns[t].user,
                        text |-> IF turns[t].pc = "reply" THEN turns[t].reply ELSE Fallback]
    /\ turns[t].pc = "done" => turns'[t] = turns[t]
    /\ turns[t].pc = "reply" => turns'[t].pc # "error"
    /\ turns[t].pc = "error" => turns'[t].pc # "reply"
\* C14: when every call ends, the turn of every message handed to
\* processMessage ends (again and again no turn is open, and a turn that has
\* ended stays ended), and the turn sends exactly one text to the sender, the
\* handler's reply or the fallback.
C14_EveryMessageAnswered ==
    /\ [][\A t \in TurnIds : C14_OneText(t)]_vars
    /\ []<>(\A t \in TurnIds : ~InFlight(t))
C14_Witness ==
    \E t1, t2 \in TurnIds :
        /\ turns[t1].pc = "done"
        /\ outbox.text = Fallback
        /\ turns[t2].pc = "done"
        /\ t1 # t2
        /\ \E u \in Users : userStateMap[u].conversationContext.hasRecipes
        /\ \A t \in TurnIds : ~InFlight(t)

Started == process.pc \in {"slack", "websocket"}
\* C15: until init() has succeeded no transport runs and no message is
\* processed (no turn, no session, nothing sent); a transport starts only in
\* the step in which init() resolves; when init() rejects the process exits,
\* and an exited process takes no step.
C15_NothingBeforeInit ==
    /\ [](~Started =>
            /\ turns = [t \in TurnIds |-> IdleTurn]
            /\ userStateMap = [u \in Users |-> NoState]
            /\ outbox = NoMessage
            /\ frames = NoFrames
            /\ store = UsedStore)
    /\ [][/\ (~Started /\ Started') => process.pc = "init"
          /\ (process.pc = "init" /\ process'.pc # "init") =>
                process'.pc \in {"exited", IF process.slackToken THEN "slack" ELSE "websocket"}
          /\ process.pc = "exited" => vars' = vars
          /\ Started => process' = process]_vars
C15_Witness == process.pc = "exited" /\ process.slackToken

\* C16: a ping frame of a web-socket client is answered with one ping frame to
\* that client, and the step starts no turn, creates and changes no session,
\* sends no text and changes nothing in the store.
C16_PingAnswered ==
    [][(frames'.n # frames.n /\ frames'.type = "ping") =>
          /\ frames'.pings = frames.pings + 1
          /\ frames'.pinged = frames'.client
          /\ UNCHANGED <<userStateMap, turns, store, outbox, inbox, process>>]_vars
C16_Witness ==
    /\ frames.type = "ping"
    /\ frames.pinged = "u2"
    /\ frames.pings = 1
    /\ ~userStateMap["u2"].exists
    /\ \E t \in TurnIds : InFlight(t) /\ turns[t].user = "u1"

SourceOps == {"findByIngredients", "findByCuisine", "getInfoById"}
\* C17: no two open turns of different users have both queried the recipe
\* source for the same ingredient key, cuisine key or recipe id.
C17_CreatedOnce ==
    \A t1, t2 \in TurnIds :
        (t1 # t2 /\ InFlight(t1) /\ InFlight(t2) /\ turns[t1].user # turns[t2].user) =>
            \A i \in DOMAIN turns[t1].calls, j \in DOMAIN turns[t2].calls :
                ~(/\ turns[t1].calls[i].op \in SourceOps
                  /\ turns[t1].calls[i].op = turns[t2].calls[j].op
                  /\ turns[t1].calls[i].key = turns[t2].calls[j].key)

OpsOf(tr) == [i \in DOMAIN tr.calls |-> tr.calls[i].op]
MissOps == <<"findRecipe", "getInfoById", "getStepsById", "addRecipe">>
HitOps == <<"findRecipe", "recordRecipeRequestForUser">>
IsPrefix(p, q) == Len(p) <= Len(q) /\ p = SubSeq(q, 1, Len(p))
\* The calls of a selection turn, step by step.
C18_Ordered(t) ==
    LET before == turns[t]
        after == turns'[t]
    IN /\ after.handler = "selection" =>
             /\ IsPrefix(OpsOf(after), MissOps) \/ IsPrefix(OpsOf(after), HitOps)
             /\ \A i \in DOMAIN after.calls : after.calls[i].key = after.recipeId
       /\ (after.handler = "selection" /\ Len(after.calls) > Len(before.calls)) =>
             /\ Len(after.calls) = Len(before.calls) + 1
             /\ after.pc = after.calls[Len(after.calls)].op
             /\ before.calls = <<>> => DispatchStep(t)
             /\ before.calls # <<>> =>
                   /\ ResolveStep(t, before.calls[Len(before.calls)].op)
                   /\ SubSeq(after.calls, 1, Len(before.calls)) = before.calls
       /\ ResolveStep(t, "findRecipe") =>
             after.pc = IF store.recipes[before.recipeId].exists
                        THEN "recordRecipeRequestForUser" ELSE "getInfoById"
       /\ (before.handler = "selection" /\ before.pc \in {"error", "reply"}) =>
             after.calls \in {before.calls, <<>>}
       /\ (before.handler = "selection" /\ after.pc = "error" /\ before.pc # "error") =>
             after.calls = <<>>
\* C18: a selection turn calls findRecipe first; on a miss getInfoById, then
\* getStepsById, then addRecipe, each issued in the step in which the call
\* before it resolves; on a hit recordRecipeRequestForUser once and nothing
\* else; a turn in which a call rejects issues no further call.
C18_SelectionPipeline == [][\A t \in TurnIds : C18_Ordered(t)]_vars
C18_Witness ==
    \E t \in TurnIds :
        /\ turns[t].pc = "addRecipe"
        /\ OpsOf(turns[t]) = MissOps
        /\ ~store.recipes[turns[t].recipeId].exists

\* The step in which a list-producing handler resolves.
C19_ListDone(t) ==
    (turns[t].handler \in {"favorites", "ingredients", "cuisine"} /\ turns[t].pc # "reply"
     /\ turns'[t].pc = "reply") =>
        LET after == SessionAfter(t)
            recipes == after.conversationContext.recipes
        IN /\ after.conversationContext.hasRecipes
           /\ turns'[t].reply = getRecipeListResponse(recipes)
           /\ turns[t].handler = "favorites" =>
                 /\ after.ingredientCuisine = NullICDoc
                 /\ recipes = StoreFindFavorites(store, Session(t).user, FavoritesLimit)
           /\ turns[t].handler # "favorites" =>
                 /\ after.ingredientCuisine = ICDoc(KindOf(t), KeyOf(t), recipes)
                 /\ store'[KindOf(t)][KeyOf(t)].exists
                 /\ recipes = store'[KindOf(t)][KeyOf(t)].recipes
\* C19: when the favorites, ingredients or cuisine handler resolves, the list
\* 'recipes' of the session's context is the list the reply renders; the
\* attribution is null after the favorites handler and, after the ingredients
\* or cuisine handler, the store's record of the turn's key with that list.
C19_ListKeptInSession == [][\A t \in TurnIds : C19_ListDone(t)]_vars
C19_Witness ==
    \E t \in TurnIds :
        /\ turns[t].handler = "favorites"
        /\ turns[t].pc = "reply"
        /\ Session(t).conversationContext.recipes = <<Candidate(3)>>
        /\ Session(t).ingredientCuisine = NullICDoc
        /\ turns[t].reply = getRecipeListResponse(<<Candidate(3)>>)

UserOps ==
    {"findFavoriteRecipesForUser", "recordIngredientRequestForUser", "addIngredient",
     "recordCuisineRequestForUser", "addCuisine", "recordRecipeRequestForUser", "addRecipe"}
\* C20: every call of a store operation that takes a user carries a user
\* record, never an absent one.
C20_UserAttachedForStore ==
    \A t \in TurnIds : \A i \in DOMAIN turns[t].calls :
        turns[t].calls[i].op \in UserOps => ~Absent(turns[t].calls[i].user)

====
